---- MODULE Spec2Model ----
(***************************************************************************)
(* A model of the zeerust Z80 core (src/src/z80/mod.rs): the instruction   *)
(* executor Z80::exec_with_offset and the handlers it dispatches to.       *)
(*                                                                         *)
(* The Z80 value is a record; every Rust method of `impl Z80` is an        *)
(* operator from a Z80 value (and the method's arguments) to the Z80 value *)
(* the method leaves behind.  A Rust panic (index out of bounds, checked   *)
(* arithmetic overflow, panic!, assert!, unimplemented!) leaves the value  *)
(* as mutated so far with `panicked` set; nothing executes afterwards.     *)
(***************************************************************************)
EXTENDS Integers, Sequences, FiniteSets, TLC

VARIABLES
    z0,               \* the Z80 value the host prepared, before the first exec
    z80,              \* the Z80 struct: registers, memory, is_halted, devices
    ret,              \* Option<u16> returned by the last exec_with_offset
    prog,             \* the decoded instructions the driver feeds to the executor
    ip,               \* index in prog of the next instruction to execute
    overflow_checks   \* build profile: TRUE = u8/u16 `+`,`-` panic on overflow

vars == <<z0, z80, ret, prog, ip, overflow_checks>>

-----------------------------------------------------------------------------
(* Machine integers and bitwise operators                                  *)

Byte == 0..255

Pow2(n) == 2^n

U8(x)  == x % 256
U16(x) == x % 65536

RECURSIVE BitAnd(_, _)
BitAnd(a, b) ==
    IF a = 0 \/ b = 0 THEN 0
    ELSE (a % 2) * (b % 2) + 2 * BitAnd(a \div 2, b \div 2)

RECURSIVE BitOr(_, _)
BitOr(a, b) ==
    IF a = 0 THEN b
    ELSE IF b = 0 THEN a
    ELSE (IF a % 2 = 1 \/ b % 2 = 1 THEN 1 ELSE 0) + 2 * BitOr(a \div 2, b \div 2)

RECURSIVE BitXor(_, _)
BitXor(a, b) ==
    IF a = 0 THEN b
    ELSE IF b = 0 THEN a
    ELSE ((a + b) % 2) + 2 * BitXor(a \div 2, b \div 2)

\* !x on a u8
BitNot8(a) == 255 - a

RECURSIVE count_ones(_)
count_ones(v) == IF v = 0 THEN 0 ELSE (v % 2) + count_ones(v \div 2)

\* u8::count_zeros
count_zeros(v) == 8 - count_ones(v)

\* u8::rotate_left(1), u8::rotate_right(1)
rotl8(v) == U8(v * 2) + (v \div 128)
rotr8(v) == (v \div 2) + 128 * (v % 2)

\* u16::to_le_bytes, u16::from_le_bytes
to_le_bytes(v) == <<v % 256, v \div 256>>
from_le_bytes(lo, hi) == lo + 256 * hi

\* `offset as u16` for an i8: sign extension
i8_as_u16(offset) == IF offset < 0 THEN 65536 + offset ELSE offset

-----------------------------------------------------------------------------
(* Option<u16>                                                             *)

None == {}
Some(x) == {x}

-----------------------------------------------------------------------------
(* Operand descriptors (ops::Location8, ops::Location16)                   *)

Reg(r)               == [kind |-> "Reg", reg |-> r, n |-> 0]
RegIndirect(r)       == [kind |-> "RegIndirect", reg |-> r, n |-> 0]
Immediate(v)         == [kind |-> "Immediate", reg |-> "-", n |-> v]
ImmediateIndirect(a) == [kind |-> "ImmediateIndirect", reg |-> "-", n |-> a]
NoLoc                == [kind |-> "-", reg |-> "-", n |-> 0]

Reg8  == {"A", "F", "B", "C", "D", "E", "H", "L",
          "AP", "FP", "BP", "CP", "DP", "EP", "HP", "LP"}

\* Z80::ONE_IMM, Z80::ACC, Z80::HL_INDIRECT
ONE_IMM     == Immediate(1)
ACC         == Reg("A")
HL_INDIRECT == RegIndirect("HL")

-----------------------------------------------------------------------------
(* cpu::mem and cpu::reg: the memory array and the register file           *)

MEMORY_SIZE == 16384

\* The memory array is all zero after Memory::default(); the model keeps the
\* non-zero cells only, the others read as zero.
mem_read(mem, a) == IF a \in DOMAIN mem THEN mem[a] ELSE 0
mem_write(mem, a, v) ==
    [x \in (IF v = 0 THEN (DOMAIN mem) \ {a} ELSE (DOMAIN mem) \cup {a}) |->
        IF x = a THEN v ELSE mem[x]]

\* The memory array the host gets by writing the given cells
mem_load(cells) == [x \in {a \in DOMAIN cells : cells[a] # 0} |-> cells[x]]

\* Bit of the F register that holds each ops::StatusFlag
flag_mask(flag) ==
    CASE flag = "Carry"          -> 1
      [] flag = "AddSubtract"    -> 2
      [] flag = "ParityOverflow" -> 4
      [] flag = "HalfCarry"      -> 16
      [] flag = "Zero"           -> 64
      [] flag = "Sign"           -> 128

get_reg8(z, r) == z.registers.r8[r]

get_flag(z, flag) == BitAnd(get_reg8(z, "F"), flag_mask(flag)) # 0

get_pc(z) == z.registers.pc

\* High and low register of each 16-bit pair
pair_hi(p) ==
    CASE p = "AF" -> "A" [] p = "BC" -> "B" [] p = "DE" -> "D" [] p = "HL" -> "H"
      [] p = "AFP" -> "AP" [] p = "BCP" -> "BP" [] p = "DEP" -> "DP" [] p = "HLP" -> "HP"
pair_lo(p) ==
    CASE p = "AF" -> "F" [] p = "BC" -> "C" [] p = "DE" -> "E" [] p = "HL" -> "L"
      [] p = "AFP" -> "FP" [] p = "BCP" -> "CP" [] p = "DEP" -> "EP" [] p = "HLP" -> "LP"

get_reg16(z, p) ==
    IF p = "SP" THEN z.registers.sp
    ELSE 256 * get_reg8(z, pair_hi(p)) + get_reg8(z, pair_lo(p))

\* A panic: the value as it is, marked dead.
Panic(z) == [z EXCEPT !.panicked = TRUE]

set_reg8(z, r, v) ==
    IF z.panicked THEN z ELSE [z EXCEPT !.registers.r8[r] = v]

set_reg16(z, p, v) ==
    IF z.panicked THEN z
    ELSE IF p = "SP" THEN [z EXCEPT !.registers.sp = v]
    ELSE [z EXCEPT !.registers.r8[pair_hi(p)] = v \div 256,
                   !.registers.r8[pair_lo(p)] = v % 256]

set_flag(z, flag, b) ==
    IF z.panicked THEN z
    ELSE LET f == get_reg8(z, "F")
             m == flag_mask(flag)
         IN  set_reg8(z, "F", IF b THEN BitOr(f, m) ELSE BitAnd(f, BitNot8(m)))

\* impl Default for Z80
Default ==
    [registers      |-> [r8 |-> [r \in Reg8 |-> 0], sp |-> MEMORY_SIZE, pc |-> 0],
     memory         |-> <<>>,
     is_halted      |-> FALSE,
     input_devices  |-> <<>>,
     output_devices |-> <<>>,
     panicked       |-> FALSE]

-----------------------------------------------------------------------------
(* Operand resolver: get_loc8 / set_loc8 / get_loc16 / set_loc16           *)

\* memory.memory[addr as usize] panics when addr is outside the array
index_panics(addr) == addr >= MEMORY_SIZE

\* Whether evaluating get_loc8(loc) panics
get_loc8_panics(z, loc) ==
    CASE loc.kind = "RegIndirect"       -> index_panics(get_reg16(z, loc.reg))
      [] loc.kind = "ImmediateIndirect" -> index_panics(loc.n)
      [] OTHER                          -> FALSE

get_loc8(z, loc) ==
    CASE loc.kind = "Immediate"         -> loc.n
      [] loc.kind = "Reg"               -> get_reg8(z, loc.reg)
      [] loc.kind = "RegIndirect"       -> mem_read(z.memory, get_reg16(z, loc.reg))
      [] loc.kind = "ImmediateIndirect" -> mem_read(z.memory, loc.n)

\* memory.memory[addr as usize] = val
store(z, addr, val) ==
    IF z.panicked THEN z
    ELSE IF index_panics(addr) THEN Panic(z)
    ELSE [z EXCEPT !.memory = mem_write(z.memory, addr, val)]

set_loc8(z, loc, val) ==
    IF z.panicked THEN z
    ELSE CASE loc.kind = "Immediate"         -> Panic(z)
           [] loc.kind = "Reg"               -> set_reg8(z, loc.reg, val)
           [] loc.kind = "ImmediateIndirect" -> store(z, loc.n, val)
           [] loc.kind = "RegIndirect"       -> store(z, get_reg16(z, loc.reg), val)

\* The address a 16-bit indirect location names
loc16_addr(z, loc) ==
    IF loc.kind = "RegIndirect" THEN get_reg16(z, loc.reg) ELSE loc.n

\* Whether evaluating get_loc16(loc) panics.  The first index, memory[n], is
\* out of bounds for every n >= MEMORY_SIZE, so `*n + 1` is only evaluated
\* for n < MEMORY_SIZE and never overflows.
get_loc16_panics(z, loc) ==
    IF loc.kind \in {"RegIndirect", "ImmediateIndirect"}
    THEN index_panics(loc16_addr(z, loc)) \/ index_panics(loc16_addr(z, loc) + 1)
    ELSE FALSE

get_loc16(z, loc) ==
    CASE loc.kind = "Reg"       -> get_reg16(z, loc.reg)
      [] loc.kind = "Immediate" -> loc.n
      [] OTHER ->
            LET n == loc16_addr(z, loc)
            IN  from_le_bytes(mem_read(z.memory, n), mem_read(z.memory, n + 1))

set_loc16(z, loc, v) ==
    IF z.panicked THEN z
    ELSE CASE loc.kind = "Immediate" -> Panic(z)
           [] loc.kind = "Reg"       -> set_reg16(z, loc.reg, v)
           [] OTHER ->
                LET n  == loc16_addr(z, loc)
                    le == to_le_bytes(v)
                IN  store(store(z, n, le[1]), n + 1, le[2])

-----------------------------------------------------------------------------
(* Arithmetic: is_borrow, subtract, add                                    *)

is_borrow(min, sub, bit) ==
    LET mask == Pow2(bit + 1) - 1
    IN  BitAnd(min, mask) < BitAnd(sub, mask)

\* `v2 += 1` on a u8: panics on overflow when the build checks overflow,
\* wraps otherwise.
incr_panics(v2) == overflow_checks /\ v2 = 255

subtract(z, dst, src, include_carry, store_result) ==
    IF z.panicked THEN z
    ELSE IF get_loc8_panics(z, dst) \/ get_loc8_panics(z, src) THEN Panic(z)
    ELSE
      LET v1   == get_loc8(z, dst)
          v2_0 == get_loc8(z, src)
          inc  == include_carry /\ get_flag(z, "Carry")
      IN  IF inc /\ incr_panics(v2_0) THEN Panic(z)
          ELSE
            LET v2  == IF inc THEN U8(v2_0 + 1) ELSE v2_0
                \* v1.overflowing_sub(v2)
                sum == U8(v1 - v2 + 256)
                ov  == v1 < v2
                z1  == IF store_result THEN set_loc8(z, dst, sum) ELSE z
                z2  == set_flag(z1, "Carry", is_borrow(v1, v2, 6))
                z3  == set_flag(z2, "AddSubtract", TRUE)
                z4  == set_flag(z3, "ParityOverflow", ov)
                z5  == set_flag(z4, "HalfCarry", is_borrow(v1, v2, 2))
                z6  == set_flag(z5, "Zero", sum = 0)
            IN  set_flag(z6, "Sign", BitAnd(sum, 128) # 0)

add(z, dst, src, include_carry) ==
    IF z.panicked THEN z
    ELSE IF get_loc8_panics(z, dst) \/ get_loc8_panics(z, src) THEN Panic(z)
    ELSE
      LET v1   == get_loc8(z, dst)
          v2_0 == get_loc8(z, src)
          inc  == include_carry /\ get_flag(z, "Carry")
      IN  IF inc /\ incr_panics(v2_0) THEN Panic(z)
          ELSE
            LET v2  == IF inc THEN U8(v2_0 + 1) ELSE v2_0
                \* v1.overflowing_add(v2)
                sum == U8(v1 + v2)
                ov  == v1 + v2 > 255
                z1  == set_loc8(z, dst, sum)
                z2  == set_flag(z1, "Carry", BitAnd(BitAnd(v1, v2), 64) # 0)
                z3  == set_flag(z2, "AddSubtract", FALSE)
                z4  == set_flag(z3, "ParityOverflow", ov)
                z5  == set_flag(z4, "HalfCarry", BitAnd(BitAnd(v1, v2), 4) # 0)
                z6  == set_flag(z5, "Zero", sum = 0)
            IN  set_flag(z6, "Sign", BitAnd(sum, 128) # 0)

-----------------------------------------------------------------------------
(* Logic and flag instructions                                             *)

\* parity_flags with the sense of the parity test inverted
parity_flags_odd(z, val) ==
    LET parity == count_zeros(val) % 2 = 1
        z1 == set_flag(z, "ParityOverflow", parity)
        z2 == set_flag(z1, "Zero", val = 0)
    IN  set_flag(z2, "Sign", BitAnd(val, 128) # 0)

parity_flags(z, val) ==
    LET parity == count_zeros(val) % 2 = 0
        z1 == set_flag(z, "ParityOverflow", parity)
        z2 == set_flag(z1, "Zero", val = 0)
    IN  set_flag(z2, "Sign", BitAnd(val, 128) # 0)

\* The closure passed to bool_op by AND / OR / XOR
bool_fn(name, d, s) ==
    CASE name = "AND" -> BitAnd(d, s)
      [] name = "OR"  -> BitOr(d, s)
      [] name = "XOR" -> BitXor(d, s)

bool_op(z, src, name) ==
    IF z.panicked THEN z
    ELSE IF get_loc8_panics(z, src) THEN Panic(z)
    ELSE
      LET v1     == get_loc8(z, ACC)
          v2     == get_loc8(z, src)
          result == bool_fn(name, v1, v2)
          z1 == set_loc8(z, ACC, result)
          z2 == set_flag(z1, "Carry", FALSE)
          z3 == set_flag(z2, "AddSubtract", FALSE)
          z4 == set_flag(z3, "HalfCarry", FALSE)
      IN  parity_flags(z4, result)

complement(z) ==
    LET a  == get_reg8(z, "A")
        z1 == set_reg8(z, "A", BitNot8(a))
        z2 == set_flag(z1, "HalfCarry", TRUE)
    IN  set_flag(z2, "AddSubtract", TRUE)

negate(z) ==
    LET a      == get_reg8(z, "A")
        \* (1_u16 << 8) - u16::from(a), low byte
        result == to_le_bytes(256 - a)[1]
        z1 == set_reg8(z, "A", result)
        z2 == set_flag(z1, "Sign", BitAnd(result, 128) # 0)
        z3 == set_flag(z2, "Zero", result = 0)
        z4 == set_flag(z3, "HalfCarry", is_borrow(0, a, 3))
        z5 == set_flag(z4, "ParityOverflow", a = 128)
        z6 == set_flag(z5, "AddSubtract", TRUE)
    IN  set_flag(z6, "Carry", a # 0)

toggle_carry(z) ==
    LET carry == get_flag(z, "Carry")
        z1 == set_flag(z, "Carry", ~carry)
    IN  set_flag(z1, "AddSubtract", FALSE)

set_carry(z) ==
    LET z1 == set_flag(z, "Carry", TRUE)
        z2 == set_flag(z1, "AddSubtract", FALSE)
    IN  set_flag(z2, "HalfCarry", FALSE)

-----------------------------------------------------------------------------
(* Rotates and shifts                                                      *)

\* The flag tail shared by the rotates and shifts: C, then H = 0, N = 0
rot_flags(z, carry) ==
    LET z1 == set_flag(z, "Carry", carry)
        z2 == set_flag(z1, "HalfCarry", FALSE)
    IN  set_flag(z2, "AddSubtract", FALSE)

rotate_left(z, loc, set_parity) ==
    IF z.panicked THEN z
    ELSE IF get_loc8_panics(z, loc) THEN Panic(z)
    ELSE
      LET val    == get_loc8(z, loc)
          result == rotl8(val)
          z1 == set_loc8(z, loc, result)
          z2 == rot_flags(z1, BitAnd(result, 128) # 0)
      IN  IF set_parity THEN parity_flags(z2, result) ELSE z2

rotate_left_thru_acc(z, loc, set_parity) ==
    IF z.panicked THEN z
    ELSE IF get_loc8_panics(z, loc) THEN Panic(z)
    ELSE
      LET val    == get_loc8(z, loc)
          carry  == get_flag(z, "Carry")
          shl    == U8(val * 2)
          result == IF carry THEN BitOr(shl, 1) ELSE shl
          z1 == set_loc8(z, loc, result)
          z2 == rot_flags(z1, BitAnd(val, 128) # 0)
      IN  IF set_parity THEN parity_flags(z2, result) ELSE z2

rotate_right(z, loc, set_parity) ==
    IF z.panicked THEN z
    ELSE IF get_loc8_panics(z, loc) THEN Panic(z)
    ELSE
      LET val    == get_loc8(z, loc)
          result == rotr8(val)
          z1 == set_loc8(z, loc, result)
          z2 == rot_flags(z1, BitAnd(result, 1) # 0)
      IN  IF set_parity THEN parity_flags(z2, result) ELSE z2

rotate_right_thru_acc(z, loc, set_parity) ==
    IF z.panicked THEN z
    ELSE IF get_loc8_panics(z, loc) THEN Panic(z)
    ELSE
      LET val    == get_loc8(z, loc)
          carry  == get_flag(z, "Carry")
          shr    == val \div 2
          result == IF carry THEN BitOr(shr, 128) ELSE shr
          z1 == set_loc8(z, loc, result)
          z2 == rot_flags(z1, BitAnd(val, 1) # 0)
      IN  IF set_parity THEN parity_flags(z2, result) ELSE z2

shift_right(z, loc, preserve_sign) ==
    IF z.panicked THEN z
    ELSE IF get_loc8_panics(z, loc) THEN Panic(z)
    ELSE
      LET val    == get_loc8(z, loc)
          carry  == BitAnd(val, 1) # 0
          shr    == val \div 2
          result == IF preserve_sign THEN BitOr(shr, BitAnd(val, 128)) ELSE shr
          z1 == set_loc8(z, loc, result)
          z2 == rot_flags(z1, carry)
      IN  parity_flags(z2, result)

shift_left(z, loc) ==
    IF z.panicked THEN z
    ELSE IF get_loc8_panics(z, loc) THEN Panic(z)
    ELSE
      LET val    == get_loc8(z, loc)
          carry  == BitAnd(val, 128) # 0
          result == U8(val * 2)
          z1 == set_loc8(z, loc, result)
          z2 == rot_flags(z1, carry)
      IN  parity_flags(z2, result)

\* The flag tail of RLD / RRD: H = 0, N = 0, then parity_flags
nibble_flags(z, acc2) ==
    LET z1 == set_flag(z, "HalfCarry", FALSE)
        z2 == set_flag(z1, "AddSubtract", FALSE)
    IN  parity_flags(z2, acc2)

rotate_nibble_left(z) ==
    IF z.panicked THEN z
    ELSE IF get_loc8_panics(z, HL_INDIRECT) THEN Panic(z)
    ELSE
      LET acc  == get_loc8(z, ACC)
          hl   == get_loc8(z, HL_INDIRECT)
          acc2 == BitOr(BitAnd(acc, 240), hl \div 16)
          hl2  == BitOr(U8(hl * 16), BitAnd(acc, 15))
          z1 == set_loc8(z, ACC, acc2)
          z2 == set_loc8(z1, HL_INDIRECT, hl2)
      IN  nibble_flags(z2, acc2)

rotate_nibble_right(z) ==
    IF z.panicked THEN z
    ELSE IF get_loc8_panics(z, HL_INDIRECT) THEN Panic(z)
    ELSE
      LET acc  == get_loc8(z, ACC)
          hl   == get_loc8(z, HL_INDIRECT)
          acc2 == BitOr(BitAnd(acc, 240), BitAnd(hl, 15))
          hl2  == BitOr(hl \div 16, U8(BitAnd(acc, 15) * 16))
          z1 == set_loc8(z, ACC, acc2)
          z2 == set_loc8(z1, HL_INDIRECT, hl2)
      IN  nibble_flags(z2, acc2)

-----------------------------------------------------------------------------
(* Bit operations                                                          *)

get_bit(z, bit, loc) ==
    IF z.panicked THEN z
    ELSE IF ~(bit < 8) \/ get_loc8_panics(z, loc) THEN Panic(z)
    ELSE
      LET val == get_loc8(z, loc)
          z1 == set_flag(z, "Zero", BitAnd(val, Pow2(bit)) = 0)
          z2 == set_flag(z1, "HalfCarry", TRUE)
      IN  set_flag(z2, "AddSubtract", FALSE)

set_bit(z, bit, loc) ==
    IF z.panicked THEN z
    ELSE IF ~(bit < 8) \/ get_loc8_panics(z, loc) THEN Panic(z)
    ELSE set_loc8(z, loc, BitOr(get_loc8(z, loc), Pow2(bit)))

reset_bit(z, bit, loc) ==
    IF z.panicked THEN z
    ELSE IF ~(bit < 8) \/ get_loc8_panics(z, loc) THEN Panic(z)
    ELSE set_loc8(z, loc, BitAnd(get_loc8(z, loc), BitNot8(Pow2(bit))))

-----------------------------------------------------------------------------
(* I/O.  An input device is the byte its input() returns; an output device *)
(* is the sequence of bytes it has been given.                             *)

read_in(z, peripheral, loc) ==
    IF z.panicked THEN z
    ELSE IF get_loc8_panics(z, peripheral) THEN Panic(z)
    ELSE
      LET port == get_loc8(z, peripheral)
      IN  IF port \notin DOMAIN z.input_devices THEN Panic(z)
          ELSE set_loc8(z, loc, z.input_devices[port])

write_out(z, peripheral, loc) ==
    IF z.panicked THEN z
    ELSE IF get_loc8_panics(z, peripheral) \/ get_loc8_panics(z, loc) THEN Panic(z)
    ELSE
      LET port == get_loc8(z, peripheral)
          val  == get_loc8(z, loc)
      IN  IF port \notin DOMAIN z.output_devices THEN Panic(z)
          ELSE [z EXCEPT !.output_devices[port] = Append(@, val)]

-----------------------------------------------------------------------------
(* Control flow and stack                                                  *)

eval_cond(z, cond) ==
    CASE cond = "Unconditional" -> TRUE
      [] cond = "Carry"         -> get_flag(z, "Carry")
      [] cond = "NoCarry"       -> ~get_flag(z, "Carry")
      [] cond = "Zero"          -> get_flag(z, "Zero")
      [] cond = "NonZero"       -> ~get_flag(z, "Zero")
      [] cond = "ParityEven"    -> get_flag(z, "ParityOverflow")
      [] cond = "ParityOdd"     -> ~get_flag(z, "ParityOverflow")
      [] cond = "SignNegative"  -> get_flag(z, "Sign")
      [] cond = "SignPositive"  -> ~get_flag(z, "Sign")

\* What a handler hands back: the Z80 value it leaves and the Option<u16>
Result(z, r) == [z |-> z, ret |-> IF z.panicked THEN None ELSE r]

jump_cond(z, cond, loc) ==
    IF eval_cond(z, cond)
    THEN IF get_loc16_panics(z, loc) THEN Result(Panic(z), None)
         ELSE Result(z, Some(get_loc16(z, loc)))
    ELSE Result(z, None)

pc_offset(z, offset) ==
    U16(U16(get_pc(z) + i8_as_u16(offset)) + 2)

jump_relative(z, cond, offset) ==
    IF eval_cond(z, cond)
    THEN Result(z, Some(pc_offset(z, offset)))
    ELSE Result(z, None)

\* decrement_jump as it would be if it tested B before the decrement
decrement_jump_tests_old_b(z, offset) ==
    LET b0 == get_reg8(z, "B")
        b  == U8(b0 + 255)
        z1 == set_reg8(z, "B", b)
    IN  IF b0 # 0 THEN Result(z1, Some(pc_offset(z1, offset)))
        ELSE Result(z1, None)

decrement_jump(z, offset) ==
    LET b0 == get_reg8(z, "B")
        \* b.wrapping_sub(1)
        b  == U8(b0 + 255)
        z1 == set_reg8(z, "B", b)
    IN  IF b # 0 THEN Result(z1, Some(pc_offset(z1, offset)))
        ELSE Result(z1, None)

push_val(z, val) ==
    IF z.panicked THEN z
    ELSE
      LET sp == get_reg16(z, "SP")
      IN  \* `sp - 2` on a u16
          IF sp < 2 /\ overflow_checks THEN Panic(z)
          ELSE set_loc16(set_reg16(z, "SP", U16(sp + 65534)), RegIndirect("SP"), val)

push(z, src) ==
    IF z.panicked THEN z
    ELSE IF get_loc16_panics(z, src) THEN Panic(z)
    ELSE push_val(z, get_loc16(z, src))

\* pop_val as it would be if it moved SP before reading the word
pop_val_reads_after_increment(z) ==
    IF z.panicked THEN [z |-> z, n |-> 0]
    ELSE
      LET sp == get_reg16(z, "SP")
          z1 == set_reg16(z, "SP", U16(sp + 2))
      IN  IF get_loc16_panics(z1, RegIndirect("SP")) THEN [z |-> Panic(z1), n |-> 0]
          ELSE [z |-> z1, n |-> get_loc16(z1, RegIndirect("SP"))]

\* pop_val: the Z80 value it leaves, and the word it returns
pop_val(z) ==
    IF z.panicked THEN [z |-> z, n |-> 0]
    ELSE IF get_loc16_panics(z, RegIndirect("SP")) THEN [z |-> Panic(z), n |-> 0]
    ELSE
      LET n  == get_loc16(z, RegIndirect("SP"))
          sp == get_reg16(z, "SP")
      IN  \* `sp + 2` on a u16
          IF sp + 2 > 65535 /\ overflow_checks THEN [z |-> Panic(z), n |-> 0]
          ELSE [z |-> set_reg16(z, "SP", U16(sp + 2)), n |-> n]

pop(z, dst) ==
    LET p == pop_val(z)
    IN  set_loc16(p.z, dst, p.n)

\* call as it would be if it installed the target in PC itself
call_sets_pc(z, cond, loc) ==
    IF eval_cond(z, cond)
    THEN IF get_pc(z) + 3 > 65535 /\ overflow_checks THEN Result(Panic(z), None)
         ELSE LET z1 == push_val(z, U16(get_pc(z) + 3))
              IN  Result(IF z1.panicked THEN z1 ELSE [z1 EXCEPT !.registers.pc = loc],
                         Some(loc))
    ELSE Result(z, None)

call(z, cond, loc) ==
    IF eval_cond(z, cond)
    THEN \* `get_pc() + 3` on a u16
         IF get_pc(z) + 3 > 65535 /\ overflow_checks THEN Result(Panic(z), None)
         ELSE Result(push_val(z, U16(get_pc(z) + 3)), Some(loc))
    ELSE Result(z, None)

return_(z, cond) ==
    IF eval_cond(z, cond)
    THEN LET p == pop_val(z) IN Result(p.z, Some(p.n))
    ELSE Result(z, None)

-----------------------------------------------------------------------------
(* Decoded instructions (ops::Op)                                          *)

Instr(name, dst, src, cond, n) ==
    [name |-> name, dst |-> dst, src |-> src, cond |-> cond, n |-> n]

\* `dst` holds an instruction's first operand and `src` its second
Op0(name)           == Instr(name, NoLoc, NoLoc, "-", 0)
Op1(name, loc)      == Instr(name, loc, NoLoc, "-", 0)
Op2(name, dst, src) == Instr(name, dst, src, "-", 0)
OpBit(name, b, loc) == Instr(name, loc, NoLoc, "-", b)
JP(cond, addr)      == Instr("JP", addr, NoLoc, cond, 0)
JR(cond, offset)    == Instr("JR", NoLoc, NoLoc, cond, offset)
DJNZ(offset)        == Instr("DJNZ", NoLoc, NoLoc, "-", offset)
CALL(cond, addr)    == Instr("CALL", NoLoc, NoLoc, cond, addr)
RET(cond)           == Instr("RET", NoLoc, NoLoc, cond, 0)

ControlOps == {"JP", "JR", "DJNZ", "CALL", "RET"}

\* The LD8 and LD16 arms
ld8(z, dst, src) ==
    IF get_loc8_panics(z, src) THEN Panic(z)
    ELSE set_loc8(z, dst, get_loc8(z, src))

ld16(z, dst, src) ==
    IF get_loc16_panics(z, src) THEN Panic(z)
    ELSE set_loc16(z, dst, get_loc16(z, src))

-----------------------------------------------------------------------------
(* The executor, exec_with_offset: one action per arm of its match.  The   *)
(* driver hands it the instructions of prog, one per step, and stops when  *)
(* it has panicked.                                                        *)

Fetch(name) ==
    /\ ~z80.panicked
    /\ ip <= Len(prog)
    /\ prog[ip].name = name

\* The instruction being executed
Op == prog[ip]

\* exec_with_offset returns: the Z80 value and the Option<u16> it leaves
Return(res) ==
    /\ z80' = res.z
    /\ ret' = res.ret
    /\ ip' = ip + 1
    /\ UNCHANGED <<z0, prog, overflow_checks>>

\* A match arm that evaluates to (): the function falls through to `None`
Arm(z) == Return(Result(z, None))

ExecLD8  == Fetch("LD8")  /\ Arm(ld8(z80, Op.dst, Op.src))
ExecLD16 == Fetch("LD16") /\ Arm(ld16(z80, Op.dst, Op.src))
ExecPUSH == Fetch("PUSH") /\ Arm(push(z80, Op.dst))
ExecPOP  == Fetch("POP")  /\ Arm(pop(z80, Op.dst))
ExecADD8 == Fetch("ADD8") /\ Arm(add(z80, Op.dst, Op.src, FALSE))
ExecADC  == Fetch("ADC")  /\ Arm(add(z80, Op.dst, Op.src, TRUE))
ExecINC  == Fetch("INC")  /\ Arm(add(z80, Op.dst, ONE_IMM, FALSE))
ExecSUB8 == Fetch("SUB8") /\ Arm(subtract(z80, Op.dst, Op.src, FALSE, TRUE))
ExecSBC  == Fetch("SBC")  /\ Arm(subtract(z80, Op.dst, Op.src, TRUE, TRUE))
ExecDEC  == Fetch("DEC")  /\ Arm(subtract(z80, Op.dst, ONE_IMM, FALSE, TRUE))
ExecCP   == Fetch("CP")   /\ Arm(subtract(z80, ACC, Op.dst, FALSE, FALSE))
ExecAND  == Fetch("AND")  /\ Arm(bool_op(z80, Op.dst, "AND"))
ExecOR   == Fetch("OR")   /\ Arm(bool_op(z80, Op.dst, "OR"))
ExecXOR  == Fetch("XOR")  /\ Arm(bool_op(z80, Op.dst, "XOR"))
ExecDAA  == Fetch("DAA")  /\ Arm(Panic(z80))
ExecCPL  == Fetch("CPL")  /\ Arm(complement(z80))
ExecNEG  == Fetch("NEG")  /\ Arm(negate(z80))
ExecCCF  == Fetch("CCF")  /\ Arm(toggle_carry(z80))
ExecSCF  == Fetch("SCF")  /\ Arm(set_carry(z80))
ExecNOP  == Fetch("NOP")  /\ Arm(z80)
ExecHALT == Fetch("HALT") /\ Arm([z80 EXCEPT !.is_halted = TRUE])
ExecRLCA == Fetch("RLCA") /\ Arm(rotate_left(z80, ACC, FALSE))
ExecRLA  == Fetch("RLA")  /\ Arm(rotate_left_thru_acc(z80, ACC, FALSE))
ExecRRCA == Fetch("RRCA") /\ Arm(rotate_right(z80, ACC, FALSE))
ExecRRA  == Fetch("RRA")  /\ Arm(rotate_right_thru_acc(z80, ACC, FALSE))
ExecRLC  == Fetch("RLC")  /\ Arm(rotate_left(z80, Op.dst, TRUE))
ExecRL   == Fetch("RL")   /\ Arm(rotate_left_thru_acc(z80, Op.dst, TRUE))
ExecRRC  == Fetch("RRC")  /\ Arm(rotate_right(z80, Op.dst, TRUE))
ExecRR   == Fetch("RR")   /\ Arm(rotate_right_thru_acc(z80, Op.dst, TRUE))
ExecSRL  == Fetch("SRL")  /\ Arm(shift_right(z80, Op.dst, FALSE))
ExecSLA  == Fetch("SLA")  /\ Arm(shift_left(z80, Op.dst))
ExecSRA  == Fetch("SRA")  /\ Arm(shift_right(z80, Op.dst, TRUE))
ExecRLD  == Fetch("RLD")  /\ Arm(rotate_nibble_left(z80))
ExecRRD  == Fetch("RRD")  /\ Arm(rotate_nibble_right(z80))
ExecBIT  == Fetch("BIT")  /\ Arm(get_bit(z80, Op.n, Op.dst))
ExecSET  == Fetch("SET")  /\ Arm(set_bit(z80, Op.n, Op.dst))
ExecRES  == Fetch("RES")  /\ Arm(reset_bit(z80, Op.n, Op.dst))
ExecIN   == Fetch("IN")   /\ Arm(read_in(z80, Op.src, Op.dst))
ExecOUT  == Fetch("OUT")  /\ Arm(write_out(z80, Op.src, Op.dst))
ExecJP   == Fetch("JP")   /\ Return(jump_cond(z80, Op.cond, Op.dst))
ExecJR   == Fetch("JR")   /\ Return(jump_relative(z80, Op.cond, Op.n))
ExecDJNZ == Fetch("DJNZ") /\ Return(decrement_jump(z80, Op.n))
ExecCALL == Fetch("CALL") /\ Return(call(z80, Op.cond, Op.n))
ExecRET  == Fetch("RET")  /\ Return(return_(z80, Op.cond))

-----------------------------------------------------------------------------
(* States the host can prepare through the public registers and memory     *)

\* A Z80 value with A, B, F, HL, SP, PC set and the listed memory cells loaded
Host(a, b, f, hl, sp, pc, mem) ==
    [Default EXCEPT
        !.registers.r8["A"] = a,
        !.registers.r8["B"] = b,
        !.registers.r8["F"] = f,
        !.registers.r8["H"] = hl \div 256,
        !.registers.r8["L"] = hl % 256,
        !.registers.sp = sp,
        !.registers.pc = pc,
        !.memory = mem]

\* install_input / install_output: an input device on port 1 that yields
\* 0x42, an output device on port 2
WithDevices(z) ==
    [z EXCEPT !.input_devices = (1 :> 66), !.output_devices = (2 :> <<>>)]

Conds == {"Unconditional", "Carry", "NoCarry", "Zero", "NonZero",
          "ParityEven", "ParityOdd", "SignNegative", "SignPositive"}

\* Every combination of the flags the jump conditions read (C, P/V, Z, S)
CondFlagBytes ==
    {c + 4 * pv + 64 * zf + 128 * sf : c \in {0, 1}, pv \in {0, 1}, zf \in {0, 1}, sf \in {0, 1}}

-----------------------------------------------------------------------------
(* Spec: one call of the executor, for every instruction variant, from     *)
(* host-prepared states that cover every flag combination, a PC at the top *)
(* of the address space, the fresh SP and an empty and a full stack.       *)

\* The stack area holds the word 0x0103 at 0x3FFE and (HL) holds 0x31
SpecMemory == (16 :> 49) @@ (16382 :> 3) @@ (16383 :> 1)

SpecHosts ==
    {WithDevices(Host(129, b, f, 16, sp, pc, SpecMemory)) :
        b \in {1, 2}, f \in CondFlagBytes, sp \in {0, 16382, MEMORY_SIZE},
        pc \in {256, 65535}}

SpecInstrs ==
    {Op2(n, d, s) : n \in {"LD8", "ADD8", "ADC", "SUB8", "SBC"},
                    d \in {Reg("A"), RegIndirect("HL")},
                    s \in {Reg("B"), Immediate(32)}}
    \cup {Op2("LD8", Immediate(0), Reg("B"))}
    \cup {Op1(n, l) : n \in {"INC", "DEC", "RLC", "RL", "RRC", "RR", "SRL", "SLA", "SRA"},
                      l \in {Reg("A"), RegIndirect("HL")}}
    \cup {Op1(n, l) : n \in {"CP", "AND", "OR", "XOR"},
                      l \in {Reg("B"), Immediate(15)}}
    \cup {Op0(n) : n \in {"DAA", "CPL", "NEG", "CCF", "SCF", "NOP", "HALT",
                          "RLCA", "RLA", "RRCA", "RRA", "RLD", "RRD"}}
    \cup {OpBit(n, b, Reg("A")) : n \in {"BIT", "SET", "RES"}, b \in {0, 7, 8}}
    \cup {Op2("IN", Reg("A"), p) : p \in {Immediate(1), Immediate(9)}}
    \cup {Op2("OUT", Reg("A"), p) : p \in {Immediate(2), Immediate(9)}}
    \cup {Op2("LD16", d, Immediate(4660)) :
            d \in {Reg("HL"), Reg("SP"), ImmediateIndirect(32), Immediate(0)}}
    \cup {Op1(n, Reg(p)) : n \in {"PUSH", "POP"}, p \in {"AF", "BC"}}
    \cup {JP(c, l) : c \in Conds, l \in {Immediate(512), RegIndirect("SP")}}
    \cup {JR(c, o) : c \in Conds, o \in {5, -3}}
    \cup {DJNZ(o) : o \in {5, -3}}
    \cup {CALL(c, 512) : c \in Conds}
    \cup {RET(c) : c \in Conds}

Start(hosts, progs) ==
    /\ z0 \in hosts
    /\ z80 = z0
    /\ ret = None
    /\ prog \in progs
    /\ ip = 1
    /\ overflow_checks \in BOOLEAN

Init == Start(SpecHosts, {<<o>> : o \in SpecInstrs})

Next ==
    \/ ExecLD8  \/ ExecLD16 \/ ExecPUSH \/ ExecPOP
    \/ ExecADD8 \/ ExecADC  \/ ExecINC
    \/ ExecSUB8 \/ ExecSBC  \/ ExecDEC  \/ ExecCP
    \/ ExecAND  \/ ExecOR   \/ ExecXOR
    \/ ExecDAA  \/ ExecCPL  \/ ExecNEG  \/ ExecCCF \/ ExecSCF
    \/ ExecNOP  \/ ExecHALT
    \/ ExecRLCA \/ ExecRLA  \/ ExecRRCA \/ ExecRRA
    \/ ExecRLC  \/ ExecRL   \/ ExecRRC  \/ ExecRR
    \/ ExecSRL  \/ ExecSLA  \/ ExecSRA
    \/ ExecRLD  \/ ExecRRD
    \/ ExecBIT  \/ ExecSET  \/ ExecRES
    \/ ExecIN   \/ ExecOUT
    \/ ExecJP   \/ ExecJR   \/ ExecDJNZ \/ ExecCALL \/ ExecRET

Spec == Init /\ [][Next]_vars

\* Whether the executor has been called at least once
Executed == ip > 1

-----------------------------------------------------------------------------
(* SpecAlu: one arithmetic or rotate instruction, for every byte in the    *)
(* destination, carry clear and set, and sources on both sides of the      *)
(* nibble and byte boundaries.                                             *)

AluHosts ==
    {Host(a, b, f, 16, MEMORY_SIZE, 0, mem_load(16 :> a)) :
        a \in Byte, b \in {1, 32, 255}, f \in {0, 1, 255}}

AluInstrs ==
    {Op2(n, Reg("A"), Reg("B")) : n \in {"ADD8", "ADC", "SUB8", "SBC"}}
    \cup {Op1("CP", Reg("B"))}
    \cup {Op1(n, l) : n \in {"INC", "DEC"}, l \in {Reg("A"), Reg("B"), RegIndirect("HL")}}
    \cup {Op1(n, Reg("A")) : n \in {"RLC", "RRC"}}
    \cup {Op0("RLCA"), Op0("RRCA")}

InitAlu == Start(AluHosts, {<<o>> : o \in AluInstrs})

NextAlu ==
    \/ ExecADD8 \/ ExecADC \/ ExecSUB8 \/ ExecSBC \/ ExecCP
    \/ ExecINC  \/ ExecDEC
    \/ ExecRLC  \/ ExecRRC \/ ExecRLCA \/ ExecRRCA

SpecAlu == InitAlu /\ [][NextAlu]_vars

\* The first instruction has been executed and no other: z0 is the state
\* before it and z80 the state after it.
AfterFirst(names) == ip = 2 /\ prog[1].name \in names

\* The bytes an arithmetic instruction reads: destination, source, carry-in
ArithV1 == get_loc8(z0, IF prog[1].name = "CP" THEN ACC ELSE prog[1].dst)
ArithV2 == get_loc8(z0, IF prog[1].name = "CP" THEN prog[1].dst ELSE prog[1].src)
ArithCin ==
    IF prog[1].name \in {"ADC", "SBC"} /\ get_flag(z0, "Carry") THEN 1 ELSE 0

\* The byte an arithmetic instruction computes
ArithResult ==
    IF prog[1].name \in {"ADD8", "ADC"}
    THEN U8(ArithV1 + ArithV2 + ArithCin)
    ELSE U8(ArithV1 - ArithV2 - ArithCin + 512)

SignBit(v) == v \div 128

\* C1: after ADD8/ADC/SUB8/SBC/CP the operation has completed and the C flag
\* is the true unsigned carry (v1 + v2 + c > 0xFF) or borrow (v1 < v2 + c)
\* out of bit 7.
C1_CarryIsUnsignedCarry ==
    AfterFirst({"ADD8", "ADC", "SUB8", "SBC", "CP"}) =>
        /\ ~z80.panicked
        /\ get_flag(z80, "Carry") =
              IF prog[1].name \in {"ADD8", "ADC"}
              THEN ArithV1 + ArithV2 + ArithCin > 255
              ELSE ArithV1 < ArithV2 + ArithCin

\* C2: after ADD8 the H flag is the carry out of bit 3, after SUB8/CP the
\* borrow from bit 3; ADD A,B with A=0x0F, B=0x01 leaves A=0x10 and H=1.
C2_HalfCarryIsNibbleCarry ==
    /\ AfterFirst({"ADD8"}) =>
          get_flag(z80, "HalfCarry") = ((ArithV1 % 16) + (ArithV2 % 16) > 15)
    /\ AfterFirst({"SUB8", "CP"}) =>
          get_flag(z80, "HalfCarry") = ((ArithV1 % 16) < (ArithV2 % 16))
    /\ (AfterFirst({"ADD8"}) /\ ArithV1 = 15 /\ ArithV2 = 1) =>
          get_reg8(z80, "A") = 16 /\ get_flag(z80, "HalfCarry")

\* C3: after ADD8, SUB8 and CP the P/V flag is two's-complement signed
\* overflow; SUB A,B with A=0x10, B=0x20 leaves A=0xF0 with P/V=0 and C=1.
C3_OverflowIsSigned ==
    /\ AfterFirst({"ADD8"}) =>
          get_flag(z80, "ParityOverflow") =
              (SignBit(ArithV1) = SignBit(ArithV2) /\ SignBit(ArithResult) # SignBit(ArithV1))
    /\ AfterFirst({"SUB8", "CP"}) =>
          get_flag(z80, "ParityOverflow") =
              (SignBit(ArithV1) # SignBit(ArithV2) /\ SignBit(ArithResult) # SignBit(ArithV1))
    /\ (AfterFirst({"SUB8"}) /\ ArithV1 = 16 /\ ArithV2 = 32) =>
          /\ get_reg8(z80, "A") = 240
          /\ ~get_flag(z80, "ParityOverflow")
          /\ get_flag(z80, "Carry")

\* C4: INC r and DEC r leave the C flag as it was before the instruction.
C4_IncDecKeepCarry ==
    AfterFirst({"INC", "DEC"}) =>
        get_flag(z80, "Carry") = get_flag(z0, "Carry")

\* The location a rotate works on
RotLoc == IF prog[1].name \in {"RLCA", "RRCA"} THEN ACC ELSE prog[1].dst

\* C5: RLC/RLCA leave v rotated left by one with C = old bit 7; RRC/RRCA
\* leave v rotated right by one with C = old bit 0.
C5_RotateCarryIsBitRotatedOut ==
    LET v == get_loc8(z0, RotLoc)
        r == get_loc8(z80, RotLoc)
    IN  /\ AfterFirst({"RLC", "RLCA"}) =>
              /\ r = ((2 * v) % 256) + (v \div 128)
              /\ get_flag(z80, "Carry") = (v \div 128 = 1)
        /\ AfterFirst({"RRC", "RRCA"}) =>
              /\ r = (v \div 2) + (128 * (v % 2))
              /\ get_flag(z80, "Carry") = (v % 2 = 1)

-----------------------------------------------------------------------------
(* SpecStack: the stack instructions in sequence.  The driver runs either  *)
(* set(p, v); PUSH p; set(p, 0); POP p or CALL cc, addr; RET cc, from an   *)
(* SP anywhere in 2..MEMORY_SIZE over a stack area that holds other data.  *)

StackHosts ==
    {Host(0, 0, f, 16, sp, pc, mem_load((sp - 2 :> 170) @@ (sp - 1 :> 85))) :
        f \in {0, 255}, sp \in {2, 3, 256, MEMORY_SIZE - 1, MEMORY_SIZE},
        pc \in {0, 256, 65532, 65533, 65535}}

RoundTrip(p, v) ==
    << Op2("LD16", Reg(p), Immediate(v)), Op1("PUSH", Reg(p)),
       Op2("LD16", Reg(p), Immediate(0)), Op1("POP", Reg(p)) >>

CallRet(c1, addr, c2) == << CALL(c1, addr), RET(c2) >>

StackProgs ==
    {RoundTrip(p, v) : p \in {"AF", "BC", "DE", "HL"},
                       v \in {0, 1, 255, 4660, 65280, 65535}}
    \cup {CallRet(c1, addr, c2) : c1 \in Conds, addr \in {512, 65535}, c2 \in Conds}

InitStack == Start(StackHosts, StackProgs)

NextStack == ExecLD16 \/ ExecPUSH \/ ExecPOP \/ ExecCALL \/ ExecRET

SpecStack == InitStack /\ [][NextStack]_vars

IsRoundTrip == prog[1].name = "LD16"
IsCallRet   == prog[1].name = "CALL"

\* C6: set(p, v); PUSH p; set(p, 0); POP p ends with get(p) = v and SP at its
\* starting value; after the PUSH, SP is the starting value minus 2 and the
\* word at SP is v, low byte first.
C6_PushPopRoundTrip ==
    IsRoundTrip =>
        LET p   == prog[1].dst.reg
            v   == prog[1].src.n
            sp0 == z0.registers.sp
            sp  == z80.registers.sp
        IN  /\ ip \in {3, 4} =>
                  /\ ~z80.panicked
                  /\ sp = sp0 - 2
                  /\ mem_read(z80.memory, sp) = v % 256
                  /\ mem_read(z80.memory, sp + 1) = v \div 256
            /\ ip = 5 =>
                  /\ ~z80.panicked
                  /\ get_reg16(z80, p) = v
                  /\ sp = sp0

\* C6 witness: a round trip of 0x1234 through AF on the fresh SP has ended
C6_Witness ==
    /\ IsRoundTrip
    /\ ip = 5
    /\ prog[1].dst.reg = "AF"
    /\ prog[1].src.n = 4660
    /\ z0.registers.sp = MEMORY_SIZE
    /\ get_reg16(z80, "AF") = 4660
    /\ z80.registers.sp = MEMORY_SIZE
    /\ mem_read(z80.memory, MEMORY_SIZE - 2) = 52
    /\ mem_read(z80.memory, MEMORY_SIZE - 1) = 18

\* The word stored at SP, low byte first
WordAtSP(z) ==
    mem_read(z.memory, z.registers.sp) + 256 * mem_read(z.memory, z.registers.sp + 1)

\* C7: a taken CALL returns Some(addr), decrements SP by 2 and stores PC + 3
\* at the new SP; an immediately following taken RET returns Some(PC + 3)
\* and restores SP; a not-taken CALL or RET returns None and changes neither
\* SP nor memory.
C7_CallThenRet ==
    IsCallRet =>
        LET addr   == prog[1].n
            taken1 == eval_cond(z0, prog[1].cond)
            taken2 == eval_cond(z0, prog[2].cond)
            pc0    == z0.registers.pc
            sp0    == z0.registers.sp
            sp1    == IF taken1 THEN sp0 - 2 ELSE sp0
        IN  /\ (ip = 2 /\ taken1) =>
                  /\ ~z80.panicked
                  /\ ret = Some(addr)
                  /\ z80.registers.sp = sp0 - 2
                  /\ WordAtSP(z80) = U16(pc0 + 3)
            /\ (ip = 2 /\ ~taken1) =>
                  /\ ~z80.panicked
                  /\ ret = None
                  /\ z80.registers.sp = sp0
                  /\ z80.memory = z0.memory
            /\ (ip = 3 /\ taken1 /\ taken2) =>
                  /\ ~z80.panicked
                  /\ ret = Some(U16(pc0 + 3))
                  /\ z80.registers.sp = sp0
            /\ (ip = 3 /\ ~taken2) =>
                  /\ ~z80.panicked
                  /\ ret = None
                  /\ z80.registers.sp = sp1

-----------------------------------------------------------------------------
(* SpecLoop: DJNZ executed repeatedly with no other write to B: runs of    *)
(* MaxDjnzRun instructions from every B, and the full run of 255 from      *)
(* B = 255.                                                                *)

MaxDjnzRun == 3

DjnzRun(offset, len) == [i \in 1..len |-> DJNZ(offset)]

LoopHosts ==
    {Host(0, b, f, 16, MEMORY_SIZE, pc, <<>>) :
        b \in Byte, f \in {0, 255}, pc \in {0, 256, 65535}}

InitLoop ==
    \/ Start(LoopHosts, {DjnzRun(o, MaxDjnzRun) : o \in {5, -3, 127, -128}})
    \/ Start({Host(0, 255, 0, 16, MEMORY_SIZE, 256, <<>>)}, {DjnzRun(5, 255)})

NextLoop == ExecDJNZ

SpecLoop == InitLoop /\ [][NextLoop]_vars

\* C8: after k successive DJNZ from B = n, B is (n - k) mod 256, the last
\* DJNZ returned Some((PC + 2 + offset) mod 65536) iff it left B non-zero and
\* None otherwise, and no flag has changed; so from 1 <= n <= 255 the first
\* n - 1 return Some and the n-th returns None with B = 0, and from n = 0 the
\* first sets B = 255 and is taken.
C8_DjnzLoopCount ==
    Executed =>
        LET n      == get_reg8(z0, "B")
            k      == ip - 1
            b      == get_reg8(z80, "B")
            target == (z0.registers.pc + 2 + prog[1].n + 65536) % 65536
        IN  /\ ~z80.panicked
            /\ b = (n - k + 256) % 256
            /\ ret = IF b # 0 THEN Some(target) ELSE None
            /\ get_reg8(z80, "F") = get_reg8(z0, "F")
            /\ (1 <= n /\ k < n) => ret # None
            /\ (1 <= n /\ k = n) => ret = None /\ b = 0
            /\ (n = 0 /\ k = 1) => b = 255 /\ ret # None

\* C8 witness: the third DJNZ +5 from B = 3 at PC = 0x0100 has returned None
C8_Witness ==
    /\ ip = 4
    /\ get_reg8(z0, "B") = 3
    /\ z0.registers.pc = 256
    /\ prog[1].n = 5
    /\ get_reg8(z80, "B") = 0
    /\ ret = None

-----------------------------------------------------------------------------
(* Claims about the executor as a whole, under Spec                        *)

\* The jump conditions as the flag bits of the F register before the call
CondHolds(cond) ==
    LET f  == get_reg8(z0, "F")
        c  == f % 2 = 1
        pv == (f \div 4) % 2 = 1
        zf == (f \div 64) % 2 = 1
        sf == (f \div 128) % 2 = 1
    IN  CASE cond = "Unconditional" -> TRUE
          [] cond = "Carry"         -> c
          [] cond = "NoCarry"       -> ~c
          [] cond = "Zero"          -> zf
          [] cond = "NonZero"       -> ~zf
          [] cond = "ParityEven"    -> pv
          [] cond = "ParityOdd"     -> ~pv
          [] cond = "SignNegative"  -> sf
          [] cond = "SignPositive"  -> ~sf

\* read16 of a location before the call, memory addresses taken modulo the
\* memory size
Read16Before(loc) ==
    CASE loc.kind = "Reg"       -> get_reg16(z0, loc.reg)
      [] loc.kind = "Immediate" -> loc.n
      [] OTHER ->
            LET a == loc16_addr(z0, loc)
            IN  mem_read(z0.memory, a % MEMORY_SIZE)
                    + 256 * mem_read(z0.memory, (a + 1) % MEMORY_SIZE)

\* C9: a non-control instruction returns None; a JP/JR/CALL/RET whose
\* condition holds returns Some(target): read16(addr_loc) for JP,
\* (PC + 2 + offset) mod 65536 for JR, addr for CALL, the popped word for
\* RET; one whose condition does not hold returns None.
C9_JumpReturnContract ==
    ip = 2 =>
        LET o == prog[1]
        IN  /\ o.name \notin ControlOps => (~z80.panicked => ret = None)
            /\ (o.name \in {"JP", "JR", "CALL", "RET"} /\ ~CondHolds(o.cond)) =>
                  ~z80.panicked /\ ret = None
            /\ (o.name = "JP" /\ CondHolds(o.cond)) =>
                  ~z80.panicked /\ ret = Some(Read16Before(o.dst))
            /\ (o.name = "JR" /\ CondHolds(o.cond)) =>
                  ~z80.panicked
                  /\ ret = Some((z0.registers.pc + 2 + o.n + 65536) % 65536)
            /\ (o.name = "CALL" /\ CondHolds(o.cond)) =>
                  ~z80.panicked /\ ret = Some(o.n)
            /\ (o.name = "RET" /\ CondHolds(o.cond)) =>
                  ~z80.panicked /\ ret = Some(Read16Before(RegIndirect("SP")))

\* C10: the executor never modifies PC, whatever the instruction.
C10_ExecKeepsPC ==
    z80.registers.pc = z0.registers.pc

\* C10 witness: a taken CALL 0x0200 at PC = 0x0100 has returned its target
C10_Witness ==
    /\ ip = 2
    /\ prog[1].name = "CALL"
    /\ ~z80.panicked
    /\ ret = Some(512)
    /\ z0.registers.pc = 256
    /\ z80.registers.pc = 256
    /\ z80.registers.sp = z0.registers.sp - 2

-----------------------------------------------------------------------------
(* SpecMem: one load, store, POP or RET through a memory operand, with the *)
(* address in HL, in SP or in the instruction, at both ends of the memory  *)
(* array, just past it and at the top of the 16-bit address space.         *)

MemAddrs == {0, 16, MEMORY_SIZE - 1, MEMORY_SIZE, MEMORY_SIZE + 16, 65535}

\* Distinct bytes in the cells the addresses above name, and in the cells
\* after them
MemCells ==
    (0 :> 17) @@ (1 :> 34) @@ (16 :> 51) @@ (17 :> 68) @@ (MEMORY_SIZE - 1 :> 85)

MemHosts ==
    {Default}
    \cup {Host(0, 119, 0, hl, sp, 256, MemCells) : hl \in MemAddrs, sp \in MemAddrs}

MemLocs == {RegIndirect("HL")} \cup {ImmediateIndirect(a) : a \in MemAddrs}

MemInstrs ==
    {Op2("LD8", Reg("A"), l) : l \in MemLocs}
    \cup {Op2("LD8", l, Reg("B")) : l \in MemLocs}
    \cup {Op2("LD16", Reg("BC"), l) : l \in MemLocs}
    \cup {Op2("LD16", l, Immediate(4660)) : l \in MemLocs}
    \cup {Op1("POP", Reg("BC")), RET("Unconditional")}

InitMem == Start(MemHosts, {<<o>> : o \in MemInstrs})

NextMem == ExecLD8 \/ ExecLD16 \/ ExecPOP \/ ExecRET

SpecMem == InitMem /\ [][NextMem]_vars

IsIndirect(loc) == loc.kind \in {"RegIndirect", "ImmediateIndirect"}

\* The address a memory operand named before the instruction
AddrBefore(loc) == loc16_addr(z0, loc)

\* The cell an address names when addresses are taken modulo the memory size
Cell(a) == a % MEMORY_SIZE

\* The little-endian word in cells Cell(a) and Cell(a + 1)
WordAt(mem, a) == mem_read(mem, Cell(a)) + 256 * mem_read(mem, Cell(a + 1))

\* C11: for every 16-bit address a, an 8-bit or 16-bit read or write through
\* RegIndirect or ImmediateIndirect completes and accesses cell a mod N (and
\* (a + 1) mod N for the high byte of a word); POP and RET complete from
\* every SP, the SP = N of a freshly created CPU included.
C11_AddressesAreMasked ==
    LET o == prog[1]
    IN  /\ (AfterFirst({"LD8"}) /\ IsIndirect(o.src)) =>
              /\ ~z80.panicked
              /\ get_loc8(z80, o.dst) = mem_read(z0.memory, Cell(AddrBefore(o.src)))
        /\ (AfterFirst({"LD8"}) /\ IsIndirect(o.dst)) =>
              /\ ~z80.panicked
              /\ mem_read(z80.memory, Cell(AddrBefore(o.dst))) = get_loc8(z0, o.src)
        /\ (AfterFirst({"LD16"}) /\ IsIndirect(o.src)) =>
              /\ ~z80.panicked
              /\ get_loc16(z80, o.dst) = WordAt(z0.memory, AddrBefore(o.src))
        /\ (AfterFirst({"LD16"}) /\ IsIndirect(o.dst)) =>
              /\ ~z80.panicked
              /\ WordAt(z80.memory, AddrBefore(o.dst)) = get_loc16(z0, o.src)
        /\ AfterFirst({"POP"}) =>
              /\ ~z80.panicked
              /\ get_loc16(z80, o.dst) = WordAt(z0.memory, z0.registers.sp)
        /\ AfterFirst({"RET"}) =>
              /\ ~z80.panicked
              /\ ret = Some(WordAt(z0.memory, z0.registers.sp))

-----------------------------------------------------------------------------------------------------------------------------------------------------
(* SpecParity: one logic, shift, rotate or nibble-rotate instruction, for  *)
(* every byte in the operand.  The accumulator-only rotates start from     *)
(* every combination of C, P/V, Z and S; the others from every combination *)
(* of C and P/V with S, Z and H all clear or all set.  (HL) holds the byte *)
(* of A, or for RLD the byte of A with its nibbles swapped, so that every  *)
(* instruction leaves every byte as its result.                            *)

swap_nibbles(v) == 16 * (v % 16) + (v \div 16)

ParityFlagBytes ==
    {c + 4 * pv + 208 * hi : c \in {0, 1}, pv \in {0, 1}, hi \in {0, 1}}

ParityHosts(flags) ==
    {Host(a, 255, f, 16, MEMORY_SIZE, 0, mem_load(16 :> a)) :
        a \in Byte, f \in flags}

ParitySwappedHosts ==
    {Host(a, 0, f, 16, MEMORY_SIZE, 0, mem_load(16 :> swap_nibbles(a))) :
        a \in Byte, f \in ParityFlagBytes}

ParityGeneral == {"RLC", "RL", "RRC", "RR", "SRL", "SLA", "SRA"}
ParityLogic   == {"AND", "OR", "XOR"}
ParityNibble  == {"RLD", "RRD"}
ParityAccOnly == {"RLCA", "RLA", "RRCA", "RRA"}

ParityInstrs ==
    {Op1(n, l) : n \in ParityGeneral, l \in {Reg("A"), RegIndirect("HL")}}
    \cup {Op1(n, Reg("B")) : n \in ParityLogic}
    \cup {Op0("RRD")}

InitParity ==
    \/ Start(ParityHosts(ParityFlagBytes), {<<o>> : o \in ParityInstrs})
    \/ Start(ParitySwappedHosts, {<<Op0("RLD")>>})
    \/ Start(ParityHosts(CondFlagBytes), {<<Op0(n)>> : n \in ParityAccOnly})

NextParity ==
    \/ ExecAND  \/ ExecOR   \/ ExecXOR
    \/ ExecRLC  \/ ExecRL   \/ ExecRRC  \/ ExecRR
    \/ ExecSRL  \/ ExecSLA  \/ ExecSRA
    \/ ExecRLD  \/ ExecRRD
    \/ ExecRLCA \/ ExecRLA  \/ ExecRRCA \/ ExecRRA

SpecParity == InitParity /\ [][NextParity]_vars

\* The result byte of the instruction: the operand of a general rotate or
\* shift, the accumulator of the others
ParityResult ==
    get_loc8(z80, IF prog[1].name \in ParityGeneral THEN prog[1].dst ELSE ACC)

\* Whether a byte has an even number of 1 bits
EvenOnes(v) ==
    LET bit(i) == (v \div Pow2(i)) % 2
    IN  (bit(0) + bit(1) + bit(2) + bit(3) + bit(4) + bit(5) + bit(6) + bit(7)) % 2 = 0

\* C12: after XOR, AND, OR, SRL, SRA, SLA, RLC, RL, RRC, RR, RLD and RRD the
\* P/V flag is set iff the result byte has an even number of 1 bits; RLCA,
\* RLA, RRCA and RRA leave P/V, S and Z as they were.
C12_ParityOfResult ==
    /\ AfterFirst(ParityLogic \cup ParityGeneral \cup ParityNibble) =>
          /\ ~z80.panicked
          /\ get_flag(z80, "ParityOverflow") = EvenOnes(ParityResult)
    /\ AfterFirst(ParityAccOnly) =>
          /\ ~z80.panicked
          /\ get_flag(z80, "ParityOverflow") = get_flag(z0, "ParityOverflow")
          /\ get_flag(z80, "Sign") = get_flag(z0, "Sign")
          /\ get_flag(z80, "Zero") = get_flag(z0, "Zero")

\* C12 witness: RLD with A = 0x7A and (HL) = 0xA7 has left A = 0x7A, a byte
\* with five 1 bits, and has cleared a P/V flag that was set
C12_Witness ==
    /\ AfterFirst({"RLD"})
    /\ get_reg8(z0, "A") = 122
    /\ mem_read(z0.memory, 16) = 167
    /\ get_flag(z0, "ParityOverflow")
    /\ get_reg8(z80, "A") = 122
    /\ mem_read(z80.memory, 16) = 122
    /\ ~get_flag(z80, "ParityOverflow")

-----------------------------------------------------------------------------
(* CCF, under Spec                                                         *)

\* C13: after CCF the C flag is the negation of its previous value, the H
\* flag equals the previous value of C and N = 0; S, Z and P/V are unchanged.
C13_CcfFlags ==
    AfterFirst({"CCF"}) =>
        /\ ~z80.panicked
        /\ get_flag(z80, "Carry") = ~get_flag(z0, "Carry")
        /\ get_flag(z80, "HalfCarry") = get_flag(z0, "Carry")
        /\ ~get_flag(z80, "AddSubtract")
        /\ get_flag(z80, "Sign") = get_flag(z0, "Sign")
        /\ get_flag(z80, "Zero") = get_flag(z0, "Zero")
        /\ get_flag(z80, "ParityOverflow") = get_flag(z0, "ParityOverflow")

====
